---- MODULE Spec2Model ----
(***************************************************************************)
(* A model of renpy/arguments.py: the two-phase argument parsing and the   *)
(* command dispatch of Ren'Py.                                             *)
(*                                                                         *)
(* The process state is the raw argument vector (sys.argv), the side       *)
(* channel epic_arguments, the session markers (renpy.session), the        *)
(* command registry (commands, display), the process environment           *)
(* (os.environ, the two SDL driver variables), the parsed arguments        *)
(* (renpy.game.args) and what the handlers write.                          *)
(*                                                                         *)
(* Strings are atoms in TLA+, so every token of the vocabulary has its     *)
(* character sequence in Chars; lower(), startswith() and argparse's       *)
(* option matching are computed on those characters.                       *)
(***************************************************************************)
EXTENDS Naturals, Integers, Sequences, FiniteSets, TLC

VARIABLES
    argv,            \* sys.argv: argv[1] is the program name
    epic_arguments,  \* module global epic_arguments: None or the saved tail
    session,         \* renpy.session: the markers _reload, compile, _warped
    commands,        \* module global commands: name -> handler
    display,         \* module global display: name -> uses_display
    environ,         \* os.environ restricted to the two SDL driver variables
    bootstrap_ret,   \* the value bootstrap() returned
    game_args,       \* renpy.game.args
    game_args_pass,  \* the parse that built the record renpy.game.args refers to
    parsed,          \* what the last parse_known_args call returned
    pc,              \* position in the start-up sequence
    pre_inited,      \* pre_init() has run
    nregs,           \* register_command calls made by the game's init code
    invoked,         \* the handlers post_init has called, in order
    post_ret,        \* the value post_init() returned: <<>> or <<b>>
    exited,          \* the process exit: code -1 while it runs
    warp_spec,       \* renpy.warp.warp_spec: <<>> is None
    config,          \* renpy.config.profile / renpy.config.debug_image_cache
    unlinked,        \* calls of renpy.loadsave.location.unlink_persistent
    should_save_persistent  \* renpy.persistent.should_save_persistent

vars == <<argv, epic_arguments, session, commands, display, environ,
          bootstrap_ret, game_args, game_args_pass, parsed, pc, pre_inited,
          nregs, invoked,
          post_ret, exited, warp_spec, config, unlinked,
          should_save_persistent>>

(***************************************************************************)
(* Bounds of the model.                                                    *)
(***************************************************************************)
\* The number of tokens after the program name.
MaxArgs == 3

\* The number of register_command calls the game's init code makes.
MaxRegs == 1

\* The calls of post_init in one session: the first start and the reloads.
MaxRuns == 3

(***************************************************************************)
(* Strings as character sequences.                                         *)
(***************************************************************************)
Chars(t) ==
  CASE t = "renpy" -> <<"r", "e", "n", "p", "y">>
  [] t = "-psn_app" -> <<"-", "p", "s", "n", "_", "a", "p", "p">>
  [] t = "-epicapp=launcher" -> <<"-", "e", "p", "i", "c", "a", "p", "p", "=", "l", "a", "u", "n", "c", "h", "e", "r">>
  [] t = "game" -> <<"g", "a", "m", "e">>
  [] t = "run" -> <<"r", "u", "n">>
  [] t = "lint" -> <<"l", "i", "n", "t">>
  [] t = "compile" -> <<"c", "o", "m", "p", "i", "l", "e">>
  [] t = "quit" -> <<"q", "u", "i", "t">>
  [] t = "rmpersistent" -> <<"r", "m", "p", "e", "r", "s", "i", "s", "t", "e", "n", "t">>
  [] t = "add_from" -> <<"a", "d", "d", "_", "f", "r", "o", "m">>
  [] t = "merge_strings" -> <<"m", "e", "r", "g", "e", "_", "s", "t", "r", "i", "n", "g", "s">>
  [] t = "bogus" -> <<"b", "o", "g", "u", "s">>
  [] t = "extra" -> <<"e", "x", "t", "r", "a">>
  [] t = "label" -> <<"l", "a", "b", "e", "l">>
  [] t = "--compile" -> <<"-", "-", "c", "o", "m", "p", "i", "l", "e">>
  [] t = "--lint" -> <<"-", "-", "l", "i", "n", "t">>
  [] t = "--warp" -> <<"-", "-", "w", "a", "r", "p">>
  [] t = "--profile-display" -> <<"-", "-", "p", "r", "o", "f", "i", "l", "e", "-", "d", "i", "s", "p", "l", "a", "y">>
  [] t = "--debug-image-cache" -> <<"-", "-", "d", "e", "b", "u", "g", "-", "i", "m", "a", "g", "e", "-", "c", "a", "c", "h", "e">>
  [] t = "--foo" -> <<"-", "-", "f", "o", "o">>
  [] t = "--help" -> <<"-", "-", "h", "e", "l", "p">>
  [] t = "-h" -> <<"-", "h">>
  [] t = "--comp" -> <<"-", "-", "c", "o", "m", "p">>
  [] t = "-epicapp=1" -> <<"-", "e", "p", "i", "c", "a", "p", "p", "=", "1">>
  [] t = "-EpicApp=2" -> <<"-", "E", "p", "i", "c", "A", "p", "p", "=", "2">>
  [] t = "-psn_0" -> <<"-", "p", "s", "n", "_", "0">>
  [] t = "-PSN_1" -> <<"-", "P", "S", "N", "_", "1">>
  [] t = "-epicapp" -> <<"-", "e", "p", "i", "c", "a", "p", "p">>
  [] t = "-ps" -> <<"-", "p", "s">>
  [] t = "--savedir" -> <<"-", "-", "s", "a", "v", "e", "d", "i", "r">>
  [] t = "--trace" -> <<"-", "-", "t", "r", "a", "c", "e">>
  [] t = "--version" -> <<"-", "-", "v", "e", "r", "s", "i", "o", "n">>
  [] t = "--compile-python" -> <<"-", "-", "c", "o", "m", "p", "i", "l", "e", "-", "p", "y", "t", "h", "o", "n">>
  [] t = "--keep-orphan-rpyc" -> <<"-", "-", "k", "e", "e", "p", "-", "o", "r", "p", "h", "a", "n", "-", "r", "p", "y", "c">>
  [] t = "--errors-in-editor" -> <<"-", "-", "e", "r", "r", "o", "r", "s", "-", "i", "n", "-", "e", "d", "i", "t", "o", "r">>
  [] t = "--safe-mode" -> <<"-", "-", "s", "a", "f", "e", "-", "m", "o", "d", "e">>
  [] t = "--json-dump" -> <<"-", "-", "j", "s", "o", "n", "-", "d", "u", "m", "p">>
  [] t = "--json-dump-private" -> <<"-", "-", "j", "s", "o", "n", "-", "d", "u", "m", "p", "-", "p", "r", "i", "v", "a", "t", "e">>
  [] t = "--json-dump-common" -> <<"-", "-", "j", "s", "o", "n", "-", "d", "u", "m", "p", "-", "c", "o", "m", "m", "o", "n">>
  [] t = "" -> <<>>
  [] t = "x" -> <<"x">>
  [] t = "f" -> <<"f">>
  [] t = "5" -> <<"5">>
  [] t = "--warp=label" -> <<"-", "-", "w", "a", "r", "p", "=", "l", "a", "b", "e", "l">>
  [] t = "--warp=" -> <<"-", "-", "w", "a", "r", "p", "=">>
  [] t = "--warp=--" -> <<"-", "-", "w", "a", "r", "p", "=", "-", "-">>
  [] t = "--trace=--" -> <<"-", "-", "t", "r", "a", "c", "e", "=", "-", "-">>
  [] t = "--compile=x" -> <<"-", "-", "c", "o", "m", "p", "i", "l", "e", "=", "x">>
  [] t = "--lint=x" -> <<"-", "-", "l", "i", "n", "t", "=", "x">>
  [] t = "--json-dump=f" -> <<"-", "-", "j", "s", "o", "n", "-", "d", "u", "m", "p", "=", "f">>
  [] t = "--savedir=game" -> <<"-", "-", "s", "a", "v", "e", "d", "i", "r", "=", "g", "a", "m", "e">>
  [] t = "--trace=5" -> <<"-", "-", "t", "r", "a", "c", "e", "=", "5">>
  [] t = "--trace=x" -> <<"-", "-", "t", "r", "a", "c", "e", "=", "x">>
  [] t = "--trace=+5" -> <<"-", "-", "t", "r", "a", "c", "e", "=", "+", "5">>
  [] t = "--foo=x" -> <<"-", "-", "f", "o", "o", "=", "x">>
  [] t = "--comp=x" -> <<"-", "-", "c", "o", "m", "p", "=", "x">>
  [] t = "-.5" -> <<"-", ".", "5">>
  [] t = "-1.5" -> <<"-", "1", ".", "5">>
  [] t = "-5" -> <<"-", "5">>
  [] t = "-5\n" -> <<"-", "5", "\n">>
  [] t = "-5." -> <<"-", "5", ".">>
  [] t = "+5" -> <<"+", "5">>
  [] t = " 5" -> <<" ", "5">>
  [] t = "5 " -> <<"5", " ">>
  [] t = "1_0" -> <<"1", "_", "0">>
  [] t = "1__0" -> <<"1", "_", "_", "0">>
  [] t = "_5" -> <<"_", "5">>
  [] t = "5_" -> <<"5", "_">>
  [] t = "+" -> <<"+">>
  [] t = "-" -> <<"-">>
  [] t = "- 5" -> <<"-", " ", "5">>
  [] t = "a b" -> <<"a", " ", "b">>
  [] t = "-a b" -> <<"-", "a", " ", "b">>
  [] t = "-hh" -> <<"-", "h", "h">>
  [] t = "-hx" -> <<"-", "h", "x">>
  [] t = "-h=" -> <<"-", "h", "=">>
  [] t = "-h=x" -> <<"-", "h", "=", "x">>
  [] t = "-x" -> <<"-", "x">>
  [] t = "-ÉPICAPP=3" -> <<"-", "É", "P", "I", "C", "A", "P", "P", "=", "3">>
  [] t = "-ÉpicApp=3" -> <<"-", "É", "p", "i", "c", "A", "p", "p", "=", "3">>
  [] t = "-EPICAPP=4" -> <<"-", "E", "P", "I", "C", "A", "P", "P", "=", "4">>

\* The strings of the model: the ones Chars spells out.
Strings == {"renpy", "-psn_app", "-epicapp=launcher", "game", "run",
            "lint", "compile", "quit", "rmpersistent", "add_from",
            "merge_strings", "bogus", "extra", "label", "--compile",
            "--lint", "--warp", "--profile-display", "--debug-image-cache",
            "--foo", "--help", "-h", "--comp", "-epicapp=1", "-EpicApp=2",
            "-psn_0", "-PSN_1", "-epicapp", "-ps", "--savedir", "--trace",
            "--version", "--compile-python", "--keep-orphan-rpyc",
            "--errors-in-editor", "--safe-mode", "--json-dump",
            "--json-dump-private", "--json-dump-common", "", "x", "f", "5",
            "--warp=label", "--warp=", "--warp=--", "--trace=--",
            "--compile=x", "--lint=x", "--json-dump=f", "--savedir=game",
            "--trace=5", "--trace=x", "--trace=+5",
            "--foo=x", "--comp=x", "-.5", "-1.5", "-5", "-5\n", "-5.",
            "+5", " 5", "5 ", "1_0", "1__0", "_5", "5_", "+", "-", "- 5",
            "a b", "-a b", "-hh", "-hx", "-h=", "-h=x", "-x", "-ÉPICAPP=3",
            "-ÉpicApp=3", "-EPICAPP=4"}

\* The string with the given characters.
StringOf(cs) == CHOOSE t \in Strings : Chars(t) = cs

\* The characters a string of the model is made of: printable ASCII (the
\* grave accent left out), tab, newline, carriage return, form feed, and the
\* Latin-1 supplement.  The string operators below are defined on these
\* characters and on no others.
\* The cased characters of the alphabet that str.lower() changes, and, at the
\* same index, what it changes them to.
UpperCase == <<"A", "B", "C", "D", "E", "F", "G", "H", "I", "J", "K", "L",
               "M", "N", "O", "P", "Q", "R", "S", "T", "U", "V", "W", "X",
               "Y", "Z", "À", "Á", "Â", "Ã", "Ä", "Å", "Æ", "Ç", "È", "É",
               "Ê", "Ë", "Ì", "Í", "Î", "Ï", "Ð", "Ñ", "Ò", "Ó", "Ô", "Õ",
               "Ö", "Ø", "Ù", "Ú", "Û", "Ü", "Ý", "Þ">>

LowerCase == <<"a", "b", "c", "d", "e", "f", "g", "h", "i", "j", "k", "l",
               "m", "n", "o", "p", "q", "r", "s", "t", "u", "v", "w", "x",
               "y", "z", "à", "á", "â", "ã", "ä", "å", "æ", "ç", "è", "é",
               "ê", "ë", "ì", "í", "î", "ï", "ð", "ñ", "ò", "ó", "ô", "õ",
               "ö", "ø", "ù", "ú", "û", "ü", "ý", "þ">>

\* The characters of the alphabet that str.lower() keeps: the lower-case
\* letters, the digits, punctuation, white space, and the uncased letters.
Unchanged == {" ", "!", "\"", "#", "$", "%", "&", "'", "(", ")", "*", "+",
               ",", "-", ".", "/", "0", "1", "2", "3", "4", "5", "6", "7",
               "8", "9", ":", ";", "<", "=", ">", "?", "@", "[", "\\", "]",
               "^", "_", "a", "b", "c", "d", "e", "f", "g", "h", "i", "j",
               "k", "l", "m", "n", "o", "p", "q", "r", "s", "t", "u", "v",
               "w", "x", "y", "z", "{", "|", "}", "~", " ", "¡", "¢", "£",
               "¤", "¥", "¦", "§", "¨", "©", "ª", "«", "¬", "­", "®", "¯",
               "°", "±", "²", "³", "´", "µ", "¶", "·", "¸", "¹", "º", "»",
               "¼", "½", "¾", "¿", "×", "ß", "à", "á", "â", "ã", "ä", "å",
               "æ", "ç", "è", "é", "ê", "ë", "ì", "í", "î", "ï", "ð", "ñ",
               "ò", "ó", "ô", "õ", "ö", "÷", "ø", "ù", "ú", "û", "ü", "ý",
               "þ", "ÿ", "\t", "\n", "\r", "\f"}

UpperSet == {UpperCase[k] : k \in 1..Len(UpperCase)}

Alphabet == UpperSet \cup Unchanged

\* str.lower() on one character of the alphabet.
LowerChar(c) ==
  CASE c \in UpperSet -> LowerCase[CHOOSE k \in 1..Len(UpperCase) : UpperCase[k] = c]
    [] c \in Unchanged -> c

\* str.lower(): no character of the alphabet lowers to more than one
\* character or depends on its neighbours.
Lower(cs) == [k \in 1..Len(cs) |-> LowerChar(cs[k])]

\* str.startswith(prefix)
StartsWith(cs, prefix) ==
  /\ Len(prefix) <= Len(cs)
  /\ \A k \in 1..Len(prefix) : cs[k] = prefix[k]

\* The two markers the sanitizers look for.
EpicMarker == <<"-", "e", "p", "i", "c", "a", "p", "p", "=">>

PsnMarker == <<"-", "p", "s", "n">>

\* i.lower().startswith("-epicapp=")
IsEpicToken(t) == StartsWith(Lower(Chars(t)), EpicMarker)

\* i.lower().startswith("-psn")
IsPsnToken(t) == StartsWith(Lower(Chars(t)), PsnMarker)

\* sys.argv[1:]
ArgTail(v) == SubSeq(v, 2, Len(v))

(***************************************************************************)
(* Optional values: None or a value.                                       *)
(***************************************************************************)
None == [some |-> FALSE, val |-> <<>>]

Some(v) == [some |-> TRUE, val |-> v]

(***************************************************************************)
(* The Platform Argument Sanitizer.                                        *)
(***************************************************************************)
\* clean_epic_arguments with the test made on the token as written, without
\* lower().
clean_epic_arguments_case_sensitive(v, epic) ==
  IF \E k \in 2..Len(v) : StartsWith(Chars(v[k]), EpicMarker)
  THEN [argv |-> <<v[1]>>, epic_arguments |-> Some(ArgTail(v))]
  ELSE [argv |-> v, epic_arguments |-> epic]

\* clean_epic_arguments: the for/else scan finds a token whose lower-case
\* form starts with "-epicapp=" among sys.argv[1:], or returns at once.
clean_epic_arguments(v, epic) ==
  IF \E k \in 2..Len(v) : IsEpicToken(v[k])
  THEN [argv |-> <<v[1]>>, epic_arguments |-> Some(ArgTail(v))]
  ELSE [argv |-> v, epic_arguments |-> epic]

\* clean_macos_arguments with the test made on the token as written,
\* without lower().
clean_macos_arguments_case_sensitive(v) ==
  IF \E k \in 2..Len(v) : StartsWith(Chars(v[k]), PsnMarker)
  THEN <<v[1]>>
  ELSE v

\* clean_macos_arguments scanning sys.argv instead of sys.argv[1:].
clean_macos_arguments_whole(v) ==
  IF \E k \in 1..Len(v) : IsPsnToken(v[k])
  THEN <<v[1]>>
  ELSE v

\* clean_macos_arguments: the same scan for "-psn", nothing is saved.
clean_macos_arguments(v) ==
  IF \E k \in 2..Len(v) : IsPsnToken(v[k])
  THEN <<v[1]>>
  ELSE v

(***************************************************************************)
(* The Argument Grammar: ArgumentParser.__init__.                          *)
(* A parser is a record: second_pass (adds -h/--help), require_command     *)
(* (basedir and command required, or optional with defaults) and flags,    *)
(* the store_true options the handler added with add_argument.             *)
(***************************************************************************)
ArgumentParser(second_pass, require_command, flags) ==
  [second_pass |-> second_pass, require_command |-> require_command,
   flags |-> flags]

\* The option strings every parser declares.
GlobalOptions ==
  {"--savedir", "--trace", "--version", "--compile", "--compile-python",
   "--keep-orphan-rpyc", "--lint", "--errors-in-editor", "--safe-mode",
   "--warp", "--json-dump", "--json-dump-private", "--json-dump-common"}

\* The options that take one argument (action store, nargs None).
StoreOptions == {"--savedir", "--trace", "--warp", "--json-dump"}

HelpOptions == {"-h", "--help"}

\* parser._option_string_actions
OptionStrings(G) ==
  GlobalOptions \cup (IF G.second_pass THEN HelpOptions ELSE {}) \cup G.flags

\* The positional arguments, in the order they are added.
Positionals == <<"basedir", "command">>

\* A namespace whose command has no default.
DefaultNamespaceNoCommand ==
  [basedir |-> "", command |-> "", compile |-> FALSE, lint |-> FALSE,
   warp |-> <<>>, profile_display |-> FALSE, debug_image_cache |-> FALSE]

\* The namespace built from the parser's defaults. Only the fields the
\* vocabulary can set are kept; savedir, trace, the json-dump options and
\* the other flags keep their defaults in every run of the model.
DefaultNamespace ==
  [basedir |-> "", command |-> "run", compile |-> FALSE, lint |-> FALSE,
   warp |-> <<>>, profile_display |-> FALSE, debug_image_cache |-> FALSE]

\* Commands that force compile to be set.
compile_commands == {"compile", "add_from", "merge_strings"}

(***************************************************************************)
(* argparse: the classification of a token (_parse_optional).              *)
(***************************************************************************)
NoOption == "<none>"

Digits == {"0", "1", "2", "3", "4", "5", "6", "7", "8", "9"}

\* The white space of the alphabet: space, tab, newline, carriage return,
\* form feed and the no-break space.
WhiteSpace == {" ", "\t", "\n", "\r", "\f", " "}

InAlphabet(cs) == \A k \in 1..Len(cs) : cs[k] \in Alphabet

\* str.strip(): the string without its leading and trailing white space.
Strip(cs) ==
  IF \A k \in 1..Len(cs) : cs[k] \in WhiteSpace THEN <<>>
  ELSE SubSeq(cs,
              CHOOSE a \in 1..Len(cs) :
                cs[a] \notin WhiteSpace /\ \A j \in 1..(a - 1) : cs[j] \in WhiteSpace,
              CHOOSE b \in 1..Len(cs) :
                cs[b] \notin WhiteSpace /\ \A j \in (b + 1)..Len(cs) : cs[j] \in WhiteSpace)

\* The string after one leading sign, if it has one.
Unsigned(cs) == IF cs # <<>> /\ cs[1] \in {"+", "-"} THEN Tail(cs) ELSE cs

\* Decimal digits, with single underscores allowed between two digits.
IsDigitString(ds) ==
  /\ Len(ds) >= 1
  /\ ds[1] \in Digits
  /\ ds[Len(ds)] \in Digits
  /\ \A k \in 1..Len(ds) :
       \/ ds[k] \in Digits
       \/ (ds[k] = "_" /\ ds[k - 1] \in Digits /\ ds[k + 1] \in Digits)

\* int(value) succeeds, for the type=int of --trace: white space around the
\* number is dropped, one sign may lead, and the digits may be grouped by
\* single underscores.
IsInt(cs) ==
  CASE InAlphabet(cs) -> IsDigitString(Unsigned(Strip(cs)))

\* The string a regular expression's "$" ends at: "$" also matches just
\* before a newline that ends the string.
BeforeFinalNewline(cs) ==
  IF cs # <<>> /\ cs[Len(cs)] = "\n" THEN SubSeq(cs, 1, Len(cs) - 1) ELSE cs

\* '^-\d+$|^-\d*\.\d+$' on a string with no final newline.
NegativeNumber(b) ==
  /\ Len(b) >= 2
  /\ b[1] = "-"
  /\ \/ \A k \in 2..Len(b) : b[k] \in Digits
     \/ \E d \in 2..(Len(b) - 1) :
          /\ b[d] = "."
          /\ \A k \in 2..(d - 1) : b[k] \in Digits
          /\ \A k \in (d + 1)..Len(b) : b[k] \in Digits

\* _negative_number_matcher.match(arg_string)
LooksNegative(cs) ==
  CASE InAlphabet(cs) -> NegativeNumber(BeforeFinalNewline(cs))

HasChar(cs, c) == \E k \in 1..Len(cs) : cs[k] = c

\* The position of the first "=" of a string that has one.
EqIndex(cs) == CHOOSE k \in 1..Len(cs) : cs[k] = "=" /\ \A j \in 1..(k - 1) : cs[j] # "="

\* The part of the string before the first "=" (the whole string without one).
BeforeEq(cs) ==
  IF HasChar(cs, "=") THEN SubSeq(cs, 1, EqIndex(cs) - 1) ELSE cs

\* The part of the string after the first "=": arg_string.split('=', 1)[1].
AfterEq(cs) == SubSeq(cs, EqIndex(cs) + 1, Len(cs))

\* The class _parse_optional gives a token: "A" for a positional argument,
\* "O" with the option it names (NoOption for an option the parser does not
\* declare) and the explicit argument written in the token itself, if any,
\* or "ambiguous" for an abbreviation of several options.
Class(kind, opt, arg) == [kind |-> kind, opt |-> opt, arg |-> arg]

\* _get_option_tuples on the characters of a token: the declared options
\* the token abbreviates. A token with two dashes matches the options that
\* start with it (up to "="); a token with one dash matches the option that
\* is its first two characters and the options that start with it.
GetOptionTuples(G, cs) ==
  IF cs[2] = "-"
  THEN {o \in OptionStrings(G) : StartsWith(Chars(o), BeforeEq(cs))}
  ELSE {o \in OptionStrings(G) :
          \/ Chars(o) = SubSeq(cs, 1, 2)
          \/ StartsWith(Chars(o), cs)}

\* The explicit argument _get_option_tuples pairs with the option o the
\* token abbreviates: the part after "=" of a token with two dashes, the
\* part after the first two characters of a token with one dash whose first
\* two characters are the option.
ExplicitArg(cs, o) ==
  IF cs[2] = "-"
  THEN IF HasChar(cs, "=") THEN Some(AfterEq(cs)) ELSE None
  ELSE IF Chars(o) = SubSeq(cs, 1, 2) THEN Some(SubSeq(cs, 3, Len(cs))) ELSE None

\* The option of a token that abbreviates exactly one option.
OnlyMatch(cs, o) == Class("O", o, ExplicitArg(cs, o))

\* The end of _parse_optional, given the options the token abbreviates.
ClassOfMatches(cs, m) ==
  IF Cardinality(m) > 1 THEN Class("ambiguous", NoOption, None)
  ELSE IF Cardinality(m) = 1 THEN OnlyMatch(cs, CHOOSE o \in m : TRUE)
  ELSE IF LooksNegative(cs) THEN Class("A", NoOption, None)
  ELSE IF HasChar(cs, " ") THEN Class("A", NoOption, None)
  ELSE Class("O", NoOption, None)

\* The options whose string is the part of the token before its first "=".
OptionsBeforeEq(G, cs) == {o \in OptionStrings(G) : Chars(o) = BeforeEq(cs)}

\* _parse_optional on a token t with characters cs. A token that is not an
\* option string but has an "=" is split there: when the part before it is
\* an option string, the part after it is that option's explicit argument.
ParseOptionalChars(G, t, cs) ==
  IF cs = <<>> THEN Class("A", NoOption, None)
  ELSE IF cs[1] # "-" THEN Class("A", NoOption, None)
  ELSE IF t \in OptionStrings(G) THEN Class("O", t, None)
  ELSE IF Len(cs) = 1 THEN Class("A", NoOption, None)
  ELSE IF HasChar(cs, "=") /\ OptionsBeforeEq(G, cs) # {}
       THEN Class("O", CHOOSE o \in OptionsBeforeEq(G, cs) : TRUE, Some(AfterEq(cs)))
  ELSE ClassOfMatches(cs, GetOptionTuples(G, cs))

ParseOptional(G, t) == ParseOptionalChars(G, t, Chars(t))

(***************************************************************************)
(* argparse: _parse_known_args. The parse state is a record: i the index   *)
(* of the next token (start_index, counted from 1), pos the positionals    *)
(* not yet consumed, ns the namespace, extras the unrecognized tokens,     *)
(* status "ok", "error" (usage error, exit 2) or "exit0" (help, version).  *)
(***************************************************************************)
\* arg_strings_pattern and option_string_indices: the class of every token.
Classes(G, toks) == [k \in 1..Len(toks) |-> ParseOptional(G, toks[k])]

OptionIndices(cls) == {k \in 1..Len(cls) : cls[k].kind = "O"}

SetMax(S) == CHOOSE x \in S : \A y \in S : y <= x

SetMin(S) == CHOOSE x \in S : \A y \in S : x <= y

\* max(option_string_indices), or an index before the first token
MaxOptionIndex(cls) ==
  IF OptionIndices(cls) = {} THEN 0 ELSE SetMax(OptionIndices(cls))

\* min(index for index in option_string_indices if index >= start_index)
NextOptionIndex(cls, i) == SetMin({k \in OptionIndices(cls) : k >= i})

\* setattr(namespace, dest, value) for a positional
SetPositional(ns, name, value) ==
  IF name = "basedir" THEN [ns EXCEPT !.basedir = value]
  ELSE [ns EXCEPT !.command = value]

\* _get_values for a positional: the token it matched, or with nargs "?"
\* and no token, the default.
PositionalValue(toks, i, count, name) ==
  IF count = 1 THEN toks[i] ELSE DefaultNamespace[name]

\* The pattern has an A at index k.
IsArg(cls, k) == k <= Len(cls) /\ cls[k].kind = "A"

\* _match_arguments_partial for the positionals left, on the pattern from
\* index i: the number of tokens each consumed positional takes. With
\* nargs "?" (pattern A?) every positional matches, taking a token when one
\* is there; with nargs None (pattern A) the longest prefix of the
\* positionals that finds its tokens matches.
MatchArgumentsPartial(G, pos, cls, i) ==
  IF pos = <<>> THEN <<>>
  ELSE IF ~G.require_command
  THEN IF Len(pos) = 1
       THEN <<IF IsArg(cls, i) THEN 1 ELSE 0>>
       ELSE IF IsArg(cls, i)
            THEN <<1, IF IsArg(cls, i + 1) THEN 1 ELSE 0>>
            ELSE <<0, 0>>
  ELSE IF Len(pos) = 2 /\ IsArg(cls, i) /\ IsArg(cls, i + 1) THEN <<1, 1>>
  ELSE IF IsArg(cls, i) THEN <<1>>
  ELSE <<>>

\* The loop of consume_positionals: each matched positional takes its
\* tokens and is removed from the positionals left.
TakePositionals(toks, st, counts) ==
  IF Len(counts) = 0 THEN st
  ELSE IF Len(counts) = 1
  THEN [st EXCEPT
          !.ns = SetPositional(@, st.pos[1],
                   PositionalValue(toks, st.i, counts[1], st.pos[1])),
          !.i = @ + counts[1],
          !.pos = SubSeq(@, 2, Len(@))]
  ELSE [st EXCEPT
          !.ns = SetPositional(
                   SetPositional(@, st.pos[1],
                     PositionalValue(toks, st.i, counts[1], st.pos[1])),
                   st.pos[2],
                   PositionalValue(toks, st.i + counts[1], counts[2], st.pos[2])),
          !.i = @ + counts[1] + counts[2],
          !.pos = SubSeq(@, 3, Len(@))]

\* consume_positionals(start_index)
ConsumePositionals(G, toks, cls, st) ==
  TakePositionals(toks, st, MatchArgumentsPartial(G, st.pos, cls, st.i))

\* The store_true actions.
StoreTrue(ns, o) ==
  IF o = "--compile" THEN [ns EXCEPT !.compile = TRUE]
  ELSE IF o = "--lint" THEN [ns EXCEPT !.lint = TRUE]
  ELSE IF o = "--profile-display" THEN [ns EXCEPT !.profile_display = TRUE]
  ELSE IF o = "--debug-image-cache" THEN [ns EXCEPT !.debug_image_cache = TRUE]
  ELSE ns

\* The store actions.
Store(ns, o, value) ==
  IF o = "--warp" THEN [ns EXCEPT !.warp = <<value>>] ELSE ns

\* consume_optional for the option o found at index st.i with no explicit
\* argument: an undeclared option goes to the extras, help and version exit,
\* a store option needs an A right after it, a store_true option sets its
\* flag.
ConsumeOption(toks, cls, st, o) ==
  IF o = NoOption
  THEN [st EXCEPT !.extras = Append(@, toks[st.i]), !.i = @ + 1]
  ELSE IF o \in HelpOptions \/ o = "--version"
  THEN [st EXCEPT !.status = "exit0",
                  !.msg = IF o = "--version" THEN "version" ELSE "help"]
  ELSE IF o \in StoreOptions
  THEN IF IsArg(cls, st.i + 1)
       THEN IF o = "--trace" /\ ~IsInt(Chars(toks[st.i + 1]))
            THEN [st EXCEPT !.status = "error", !.msg = "invalid int value"]
            ELSE [st EXCEPT !.ns = Store(@, o, toks[st.i + 1]), !.i = @ + 2]
       ELSE [st EXCEPT !.status = "error", !.msg = "expected one argument"]
  ELSE [st EXCEPT !.ns = StoreTrue(@, o), !.i = @ + 1]

\* The value a store option gets from an explicit argument that is "--":
\* _get_values removes the first "--" from the argument strings, and stores
\* the list of the converted strings that are left, which is empty.
EmptyList == "<empty list>"

\* A store option takes the explicit argument e as its value; --trace
\* converts it with int. The explicit argument "--" is removed before the
\* conversion: nothing is converted and the empty list is stored.
StoreExplicit(st, o, e) ==
  IF e = <<"-", "-">>
  THEN [st EXCEPT !.ns = Store(@, o, EmptyList), !.i = @ + 1]
  ELSE IF o = "--trace" /\ ~IsInt(e)
  THEN [st EXCEPT !.status = "error", !.msg = "invalid int value"]
  ELSE IF o = "--warp"
  THEN [st EXCEPT !.ns = Store(@, o, StringOf(e)), !.i = @ + 1]
  ELSE [st EXCEPT !.i = @ + 1]

\* The actions of a cluster are taken in order once the whole cluster is
\* read: the first one is the help action of the option o that opened it,
\* unless reading the rest r of the cluster was an error.
TakeCluster(st, o, r) ==
  IF r.status = "error" THEN r
  ELSE [st EXCEPT !.status = "exit0", !.msg = "help"]

\* The option string made of a dash and the first character of the explicit
\* argument e, when the parser declares it.
ClusterOptions(G, e) == {o \in OptionStrings(G) : Chars(o) = <<"-", e[1]>>}

\* consume_optional for the option o found at index st.i with the explicit
\* argument e: a store option takes it; an option with one dash that takes
\* no argument reads e as a cluster of further one-dash options; any other
\* option refuses it.
RECURSIVE ConsumeExplicit(_, _, _, _, _, _)
ConsumeExplicit(G, toks, cls, st, o, e) ==
  IF o \in StoreOptions THEN StoreExplicit(st, o, e)
  ELSE IF Chars(o)[2] # "-" /\ e # <<>>
  THEN IF ClusterOptions(G, e) = {}
       THEN [st EXCEPT !.status = "error", !.msg = "ignored explicit argument"]
       ELSE IF Tail(e) = <<>>
       THEN TakeCluster(st, o, ConsumeOption(toks, cls, st,
                                             CHOOSE n \in ClusterOptions(G, e) : TRUE))
       ELSE TakeCluster(st, o, ConsumeExplicit(G, toks, cls, st,
                                               CHOOSE n \in ClusterOptions(G, e) : TRUE,
                                               Tail(e)))
  ELSE [st EXCEPT !.status = "error", !.msg = "ignored explicit argument"]

\* consume_optional(start_index)
ConsumeOptional(G, toks, cls, st) ==
  IF cls[st.i].arg.some
  THEN ConsumeExplicit(G, toks, cls, st, cls[st.i].opt, cls[st.i].arg.val)
  ELSE ConsumeOption(toks, cls, st, cls[st.i].opt)

\* The tokens between the positionals and the next option are extras.
SkipExtras(toks, st, next) ==
  [st EXCEPT !.extras = @ \o SubSeq(toks, st.i, next - 1), !.i = next]

\* The loop that consumes positionals and optionals alternately, until the
\* last option string is passed.
RECURSIVE ParseLoop(_, _, _, _)
RECURSIVE AfterPositionals(_, _, _, _, _, _)
\* The body of the loop after consume_positionals, which started at index
\* start: continue when it took a token, else the tokens up to the next
\* option are extras and the option is consumed.
AfterPositionals(G, toks, cls, start, next, st1) ==
  IF st1.i > start
  THEN ParseLoop(G, toks, cls, st1)
  ELSE ParseLoop(G, toks, cls, ConsumeOptional(G, toks, cls, SkipExtras(toks, st1, next)))

\* One turn of the loop, next being the index of the next option.
LoopStep(G, toks, cls, st, next) ==
  IF st.i # next
  THEN AfterPositionals(G, toks, cls, st.i, next, ConsumePositionals(G, toks, cls, st))
  ELSE ParseLoop(G, toks, cls, ConsumeOptional(G, toks, cls, st))

ParseLoop(G, toks, cls, st) ==
  IF st.status # "ok" THEN st
  ELSE IF st.i > MaxOptionIndex(cls) THEN st
  ELSE LoopStep(G, toks, cls, st, NextOptionIndex(cls, st.i))

InitialParseState ==
  [i |-> 1, pos |-> Positionals, ns |-> DefaultNamespace, extras |-> <<>>,
   status |-> "ok", msg |-> ""]

\* The end of _parse_known_args: the tokens left are extras, a required
\* positional that was not seen is a usage error.
FinishParse(G, toks, st) ==
  IF G.require_command /\ st.pos # <<>>
  THEN [status |-> "error", msg |-> "the following arguments are required",
        ns |-> st.ns, rest |-> <<>>]
  ELSE [status |-> "ok", msg |-> "", ns |-> st.ns,
        rest |-> st.extras \o SubSeq(toks, st.i, Len(toks))]

\* After the loop: the positionals following the last option are consumed.
AfterLoop(G, toks, cls, st) ==
  IF st.status # "ok"
  THEN [status |-> st.status, msg |-> st.msg, ns |-> st.ns, rest |-> <<>>]
  ELSE FinishParse(G, toks, ConsumePositionals(G, toks, cls, st))

\* _parse_known_args on the classified tokens: an ambiguous abbreviation is
\* a usage error raised while the tokens are classified.
ParseClassified(G, toks, cls) ==
  IF \E k \in 1..Len(toks) : cls[k].kind = "ambiguous"
  THEN [status |-> "error", msg |-> "ambiguous option", ns |-> DefaultNamespace,
        rest |-> <<>>]
  ELSE AfterLoop(G, toks, cls, ParseLoop(G, toks, cls, InitialParseState))

\* argparse.ArgumentParser.parse_known_args: [status, msg, ns, rest].
ArgparseParseKnownArgs(G, toks) == ParseClassified(G, toks, Classes(G, toks))

(***************************************************************************)
(* ArgumentParser.parse_known_args and parse_args of arguments.py.         *)
(***************************************************************************)
\* renpy.session.get(key, False)
SessionGet(sess, key) == sess[key]

\* The reload rule left out.
ReloadRuleSkipped(ns, sess) == ns

\* if renpy.session.get("_reload", False): args.compile = False
ReloadRule(ns, sess) ==
  IF SessionGet(sess, "_reload") THEN [ns EXCEPT !.compile = FALSE] ELSE ns

\* The command rule testing the compile command alone.
CommandRuleOnlyCompile(ns) ==
  IF ns.command = "compile" THEN [ns EXCEPT !.compile = TRUE] ELSE ns

\* if args.command in compile_commands: args.compile = True
CommandRule(ns) ==
  IF ns.command \in compile_commands THEN [ns EXCEPT !.compile = TRUE] ELSE ns

\* if renpy.session.get("compile", False): args.compile = True
SessionRule(ns, sess) ==
  IF SessionGet(sess, "compile") THEN [ns EXCEPT !.compile = TRUE] ELSE ns

\* The three rules applied to args.compile after the parse, in order.
PostProcessCompile(ns, sess) ==
  SessionRule(CommandRule(ReloadRule(ns, sess)), sess)

\* The rules are applied to the result of a parse that returned.
PostProcess(r, sess) ==
  IF r.status = "ok" THEN [r EXCEPT !.ns = PostProcessCompile(@, sess)] ELSE r

\* ArgumentParser.parse_known_args
parse_known_args(G, toks, sess) == PostProcess(ArgparseParseKnownArgs(G, toks), sess)

\* argparse's parse_args makes any unrecognized token a usage error.
RejectUnrecognized(r) ==
  IF r.status = "ok" /\ r.rest # <<>>
  THEN [r EXCEPT !.status = "error", !.msg = "unrecognized arguments"]
  ELSE r

\* parse_args: argparse's parse_args calls self.parse_known_args.
parse_args(G, toks, sess) == RejectUnrecognized(parse_known_args(G, toks, sess))

(***************************************************************************)
(* The Command Registry.                                                   *)
(***************************************************************************)
\* The handlers: the five built-in functions and "user", a function the
\* game's init code registers.
Handlers == {"run", "lint", "compile", "rmpersistent", "quit", "user"}

\* A registration that keeps the entry a name already has.
register_command_keep_first(reg, name, function, uses_display) ==
  IF name \in DOMAIN reg.commands THEN reg
  ELSE [commands |-> (name :> function) @@ reg.commands,
        display |-> (name :> uses_display) @@ reg.display]

\* A registration that writes the handler and leaves the display flags.
register_command_commands_only(reg, name, function, uses_display) ==
  [commands |-> (name :> function) @@ reg.commands,
   display |-> reg.display]

\* register_command(name, function, uses_display) on the two dictionaries.
register_command(reg, name, function, uses_display) ==
  [commands |-> (name :> function) @@ reg.commands,
   display |-> (name :> uses_display) @@ reg.display]

\* pre_init: the five built-in registrations, in order; uses_display
\* defaults to False.
pre_init(reg) ==
  register_command(
    register_command(
      register_command(
        register_command(
          register_command(reg, "run", "run", TRUE),
          "lint", "lint", FALSE),
        "compile", "compile", FALSE),
      "rmpersistent", "rmpersistent", FALSE),
    "quit", "quit", FALSE)

(***************************************************************************)
(* The Bootstrap Parser.                                                   *)
(***************************************************************************)
\* bootstrap() without the lint special case.
ForceLintNever(ns) == ns

\* if args.command == "lint": args.lint = True
ForceLint(ns) ==
  IF ns.command = "lint" THEN [ns EXCEPT !.lint = TRUE] ELSE ns

\* The parser bootstrap() builds: ArgumentParser(False, require_command=False).
BootstrapParser == ArgumentParser(FALSE, FALSE, {})

\* The end of bootstrap(): the result carries the new sys.argv and
\* epic_arguments, the outcome of the parse and the returned arguments.
BootstrapResult(v, epic, r) ==
  [argv |-> v, epic_arguments |-> epic, parse |-> r, args |-> ForceLint(r.ns)]

\* bootstrap() parsing with parse_args instead of parse_known_args.
BootstrapParseStrict(v, epic, sess) ==
  BootstrapResult(v, epic, parse_args(BootstrapParser, ArgTail(v), sess))

\* bootstrap() after clean_epic_arguments(): clean_macos_arguments(), then
\* the lenient parse of sys.argv[1:].
BootstrapParse(v, epic, sess) ==
  BootstrapResult(v, epic, parse_known_args(BootstrapParser, ArgTail(v), sess))

BootstrapSanitized(e, sess) ==
  BootstrapParse(clean_macos_arguments(e.argv), e.epic_arguments, sess)

\* bootstrap(): sanitize, parse leniently, force lint for the lint command.
bootstrap(v, epic, sess) ==
  BootstrapSanitized(clean_epic_arguments(v, epic), sess)

(***************************************************************************)
(* The Dispatcher.                                                         *)
(***************************************************************************)
\* post_init without the redirection of "run" by the lint flag.
EffectiveCommandNoRedirect(args) == args.command

\* The effective command of post_init: --lint redirects "run" to "lint".
EffectiveCommand(args) ==
  IF args.command = "run" /\ args.lint THEN "lint" ELSE args.command

EnvNames == {"SDL_AUDIODRIVER", "SDL_VIDEODRIVER"}

\* An assignment os.environ[key] = value in place of setdefault.
SetAlways(env, key, value) == (key :> value) @@ env

\* os.environ.setdefault(key, value)
SetDefault(env, key, value) ==
  IF key \in DOMAIN env THEN env ELSE (key :> value) @@ env

\* The driver defaults of post_init, for a command with the given
\* uses_display flag.
DriverDefaults(env, uses_display) ==
  IF ~uses_display
  THEN SetDefault(SetDefault(env, "SDL_AUDIODRIVER", "dummy"),
                  "SDL_VIDEODRIVER", "dummy")
  ELSE env

\* post_init setting the driver defaults before it tests the registry.
DispatchDefaultsFirst(command, cmds, disp, env) ==
  IF command \notin DOMAIN cmds
  THEN [command |-> command, known |-> FALSE,
        environ |-> DriverDefaults(env, FALSE), handler |-> "<none>"]
  ELSE [command |-> command, known |-> TRUE,
        environ |-> DriverDefaults(env, disp[command]),
        handler |-> cmds[command]]

\* post_init for the effective command, up to the call of the handler:
\* whether the registry knows the command, the environment after the
\* driver defaults, and the handler to call.
Dispatch(command, cmds, disp, env) ==
  IF command \notin DOMAIN cmds
  THEN [command |-> command, known |-> FALSE, environ |-> env,
        handler |-> "<none>"]
  ELSE [command |-> command, known |-> TRUE,
        environ |-> DriverDefaults(env, disp[command]),
        handler |-> cmds[command]]

\* post_init taking the driver defaults from the flag of the provisional
\* command.
post_init_provisional_display(args, cmds, disp, env) ==
  IF EffectiveCommand(args) \notin DOMAIN cmds
  THEN Dispatch(EffectiveCommand(args), cmds, disp, env)
  ELSE [Dispatch(EffectiveCommand(args), cmds, disp, env)
          EXCEPT !.environ = DriverDefaults(env, disp[args.command])]

post_init(args, cmds, disp, env) ==
  Dispatch(EffectiveCommand(args), cmds, disp, env)

\* The parser run() builds: optional positionals, the help option, and the
\* two flags run() adds.
RunParser ==
  ArgumentParser(TRUE, FALSE, {"--profile-display", "--debug-image-cache"})

\* The parser takes_no_arguments() builds: ArgumentParser(description=...).
NoArgumentsParser == ArgumentParser(TRUE, TRUE, {})

\* takes_no_arguments(): the strict parse, its result dropped.
takes_no_arguments(v, sess) == parse_args(NoArgumentsParser, ArgTail(v), sess)

Running == [code |-> -1, msg |-> ""]

\* parser.error(message) exits with status 2; help and version exit with 0.
ExitOf(r) == [code |-> IF r.status = "error" THEN 2 ELSE 0, msg |-> r.msg]

\* What parse_known_args returned inside a parse_args call that may have
\* failed afterwards: the last value it returned, kept when it raised.
Returned(r, mode, old) ==
  IF r.status = "ok" \/ r.msg = "unrecognized arguments"
  THEN Some([mode |-> mode, args |-> r.ns, rest |-> r.rest])
  ELSE old

(***************************************************************************)
(* The inputs of a run: the vocabularies the argument vectors are drawn    *)
(* from, the session markers and the environment the process starts with.  *)
(***************************************************************************)
SeqsUpTo(T, n) == UNION {[1..k -> T] : k \in 0..n}

ArgVectors(progs, T) == {<<p>> \o tail : p \in progs, tail \in SeqsUpTo(T, MaxArgs)}

\* The vocabulary of the dispatch runs.
DispatchTokens == {"game", "run", "quit", "add_from", "bogus", "--lint"}

\* The vocabulary of the parse runs: the commands and flags that decide
\* the compile and lint flags.
ParseTokens ==
  {"game", "run", "lint", "compile", "add_from", "--compile", "--lint",
   "--profile-display", "--foo"}

\* The vocabulary of the runs with options the parsers do not all declare:
\* an undeclared option, an option run() declares, the help option of the
\* strict parsers alone and in a cluster, an option taking a value and a
\* flag handed a value.
DeferTokens ==
  {"game", "run", "compile", "quit", "rmpersistent", "--lint", "--warp",
   "--profile-display", "--foo", "--help", "--compile=x", "-hh"}

\* The vocabulary of the sanitizer runs: launcher and quarantine tokens in
\* both cases, near misses, and ordinary tokens.
SanitizeTokens ==
  {"game", "--lint", "-epicapp=1", "-EpicApp=2", "-psn_0", "-PSN_1",
   "-epicapp", "-ps", "-ÉPICAPP=3", "--trace=+5", "--trace=x"}

ProgramNames == {"renpy", "-psn_app", "-epicapp=launcher"}

SessionKeys == {"_reload", "compile", "_warped"}

EmptySession == [k \in SessionKeys |-> FALSE]

\* The environments: each driver variable unset, or set by the operator.
Environments ==
  UNION {[S -> {"x11"}] : S \in SUBSET EnvNames}

\* The names and handlers the game's init code registers.
UserNames == {"add_from", "quit"}

UserHandlers == {"user", "run"}

EmptyDict == [k \in {} |-> k]

InitCommon ==
  /\ epic_arguments = None
  /\ commands = EmptyDict
  /\ display = EmptyDict
  /\ bootstrap_ret = None
  /\ game_args = None
  /\ game_args_pass = "none"
  /\ parsed = None
  /\ pc = "start"
  /\ pre_inited = FALSE
  /\ nregs = 0
  /\ invoked = <<>>
  /\ post_ret = <<>>
  /\ exited = Running
  /\ warp_spec = <<>>
  /\ config = [profile |-> FALSE, debug_image_cache |-> FALSE]
  /\ unlinked = 0
  /\ should_save_persistent = TRUE

\* A start with any environment, for the dispatch.
Init ==
  /\ argv \in ArgVectors({"renpy"}, DispatchTokens)
  /\ session = EmptySession
  /\ environ \in Environments
  /\ InitCommon

\* A start with any reload and compile markers, for the parses.
InitParse ==
  /\ argv \in ArgVectors({"renpy"}, ParseTokens)
  /\ session \in {[EmptySession EXCEPT !["_reload"] = r, !["compile"] = c] :
                    r \in BOOLEAN, c \in BOOLEAN}
  /\ environ = EmptyDict
  /\ InitCommon

\* A start with options left to the strict parse of the handler.
InitDefer ==
  /\ argv \in ArgVectors({"renpy"}, DeferTokens)
  /\ session = EmptySession
  /\ environ = EmptyDict
  /\ InitCommon

\* The tokens that may surround the base directory and the command.
StrayTokens == {"extra", "--foo", "--help", "--lint", "-hh", "-hx"}

\* The commands whose handlers are in this module.
StrictCommands == {"run", "compile", "quit", "rmpersistent"}

\* The vectors with a base directory and a command, and further tokens
\* before and after them.
CommandVectors ==
  {<<"renpy">> \o a \o <<"game", c>> \o b :
     c \in StrictCommands,
     a \in SeqsUpTo(StrayTokens, MaxArgs - 1),
     b \in SeqsUpTo(StrayTokens, MaxArgs - 1)}

\* A start with a command of this module and stray tokens around it.
InitStray ==
  /\ argv \in {v \in CommandVectors : Len(v) <= MaxArgs + 2}
  /\ session = EmptySession
  /\ environ = EmptyDict
  /\ InitCommon

\* The vocabulary of the runs with a warp target.
WarpTokens ==
  {"game", "run", "--warp", "label", "extra", "--warp=label", "--warp=--", ""}

\* A start of a session that may be reloaded.
InitReload ==
  /\ argv \in ArgVectors({"renpy"}, WarpTokens)
  /\ session = EmptySession
  /\ environ = EmptyDict
  /\ InitCommon

\* A start with launcher and quarantine tokens, for the sanitizer.
InitSanitize ==
  /\ argv \in ArgVectors(ProgramNames, SanitizeTokens)
  /\ session = EmptySession
  /\ environ = EmptyDict
  /\ InitCommon

(***************************************************************************)
(* The steps of the start-up sequence.                                     *)
(***************************************************************************)
\* The effects of bootstrap(), b being what it computed.
BootstrapEffects(b) ==
  /\ argv' = b.argv
  /\ epic_arguments' = b.epic_arguments
  /\ IF b.parse.status = "ok"
     THEN /\ parsed' = Some([mode |-> "lenient", args |-> b.parse.ns,
                             rest |-> b.parse.rest])
          /\ bootstrap_ret' = Some(b.args)
          /\ pc' = "bootstrapped"
          /\ exited' = exited
     ELSE /\ parsed' = parsed
          /\ bootstrap_ret' = bootstrap_ret
          /\ pc' = "exited"
          /\ exited' = ExitOf(b.parse)

\* bootstrap() is called on the raw argument vector.
Bootstrap ==
  /\ pc = "start"
  /\ BootstrapEffects(bootstrap(argv, epic_arguments, session))
  /\ UNCHANGED <<session, commands, display, environ, game_args, game_args_pass, pre_inited,
                 nregs, invoked, post_ret, warp_spec, config, unlinked,
                 should_save_persistent>>

\* The caller of bootstrap() stores the returned arguments in
\* renpy.game.args.
SetGameArgs ==
  /\ pc = "bootstrapped"
  /\ game_args' = bootstrap_ret
  /\ game_args_pass' = "bootstrap"
  /\ pc' = "init"
  /\ UNCHANGED <<argv, epic_arguments, session, commands, display, environ,
                 bootstrap_ret, parsed, pre_inited, nregs, invoked, post_ret,
                 exited, warp_spec, config, unlinked, should_save_persistent>>

\* The two dictionaries become reg.
SetRegistry(reg) ==
  /\ commands' = reg.commands
  /\ display' = reg.display

Registry == [commands |-> commands, display |-> display]

\* pre_init() registers the built-in commands.
PreInit ==
  /\ pc = "init"
  /\ ~pre_inited
  /\ SetRegistry(pre_init(Registry))
  /\ pre_inited' = TRUE
  /\ UNCHANGED <<argv, epic_arguments, session, environ, bootstrap_ret,
                 game_args, game_args_pass, parsed, pc, nregs, invoked, post_ret, exited,
                 warp_spec, config, unlinked, should_save_persistent>>

\* The game's init code calls register_command.
RegisterCommand ==
  /\ pc = "init"
  /\ nregs < MaxRegs
  /\ \E name \in UserNames, function \in UserHandlers, uses_display \in BOOLEAN :
       SetRegistry(register_command(Registry, name, function, uses_display))
  /\ nregs' = nregs + 1
  /\ UNCHANGED <<argv, epic_arguments, session, environ, bootstrap_ret,
                 game_args, game_args_pass, parsed, pc, pre_inited, invoked, post_ret, exited,
                 warp_spec, config, unlinked, should_save_persistent>>

\* The truth value run() tests of args.warp: None (written <<>>), the
\* empty string and the empty list are false, every other string is true.
Truthy(w) == w # <<>> /\ w # <<"">> /\ w # <<EmptyList>>

\* run() keeping the record of bootstrap in renpy.game.args.
RunEffectsKeepsArgs(r) ==
  /\ parsed' = Returned(r, "strict", parsed)
  /\ IF r.status = "ok"
     THEN /\ IF Truthy(r.ns.warp) /\ ~SessionGet(session, "_warped")
             THEN /\ session' = [session EXCEPT !["_warped"] = TRUE]
                  /\ warp_spec' = r.ns.warp
             ELSE UNCHANGED <<session, warp_spec>>
          /\ config' = [profile |-> IF r.ns.profile_display THEN TRUE
                                    ELSE config.profile,
                        debug_image_cache |-> IF r.ns.debug_image_cache THEN TRUE
                                              ELSE config.debug_image_cache]
          /\ post_ret' = <<TRUE>>
          /\ pc' = "dispatched"
          /\ exited' = exited
     ELSE /\ pc' = "exited"
          /\ exited' = ExitOf(r)
          /\ UNCHANGED <<session, warp_spec, config, post_ret>>
  /\ UNCHANGED <<game_args, game_args_pass, unlinked, should_save_persistent>>

\* run() taking the warp target whatever the _warped marker is.
RunEffectsWarpsAlways(r) ==
  /\ parsed' = Returned(r, "strict", parsed)
  /\ IF r.status = "ok"
     THEN /\ game_args' = Some(r.ns)
          /\ game_args_pass' = "strict"
          /\ IF Truthy(r.ns.warp)
             THEN /\ session' = [session EXCEPT !["_warped"] = TRUE]
                  /\ warp_spec' = r.ns.warp
             ELSE UNCHANGED <<session, warp_spec>>
          /\ config' = [profile |-> IF r.ns.profile_display THEN TRUE
                                    ELSE config.profile,
                        debug_image_cache |-> IF r.ns.debug_image_cache THEN TRUE
                                              ELSE config.debug_image_cache]
          /\ post_ret' = <<TRUE>>
          /\ pc' = "dispatched"
          /\ exited' = exited
     ELSE /\ pc' = "exited"
          /\ exited' = ExitOf(r)
          /\ UNCHANGED <<game_args, game_args_pass, session, warp_spec, config,
                         post_ret>>
  /\ UNCHANGED <<unlinked, should_save_persistent>>

\* run() after its parse_args call returned r: the result replaces
\* renpy.game.args; the warp target is taken once per session; the two
\* flags set their configuration variables; run() returns True.
RunEffects(r) ==
  /\ parsed' = Returned(r, "strict", parsed)
  /\ IF r.status = "ok"
     THEN /\ game_args' = Some(r.ns)
          /\ game_args_pass' = "strict"
          /\ IF Truthy(r.ns.warp) /\ ~SessionGet(session, "_warped")
             THEN /\ session' = [session EXCEPT !["_warped"] = TRUE]
                  /\ warp_spec' = r.ns.warp
             ELSE UNCHANGED <<session, warp_spec>>
          /\ config' = [profile |-> IF r.ns.profile_display THEN TRUE
                                    ELSE config.profile,
                        debug_image_cache |-> IF r.ns.debug_image_cache THEN TRUE
                                              ELSE config.debug_image_cache]
          /\ post_ret' = <<TRUE>>
          /\ pc' = "dispatched"
          /\ exited' = exited
     ELSE /\ pc' = "exited"
          /\ exited' = ExitOf(r)
          /\ UNCHANGED <<game_args, game_args_pass, session, warp_spec, config, post_ret>>
  /\ UNCHANGED <<unlinked, should_save_persistent>>

\* run(): the strict parse with the two extra flags.
Run == RunEffects(parse_args(RunParser, ArgTail(argv), session))

\* compile() and quit() after takes_no_arguments: return False.
CompileOrQuitEffects(r) ==
  /\ parsed' = Returned(r, "strict", parsed)
  /\ IF r.status = "ok"
     THEN /\ post_ret' = <<FALSE>>
          /\ pc' = "dispatched"
          /\ exited' = exited
     ELSE /\ pc' = "exited"
          /\ exited' = ExitOf(r)
          /\ post_ret' = post_ret
  /\ UNCHANGED <<game_args, game_args_pass, session, warp_spec, config, unlinked,
                 should_save_persistent>>

\* compile() and quit(): takes_no_arguments, then return False.
CompileOrQuit == CompileOrQuitEffects(takes_no_arguments(argv, session))

\* rmpersistent() deleting the persistent data before it parses.
RmpersistentDeletesFirst(r) ==
  /\ parsed' = Returned(r, "strict", parsed)
  /\ unlinked' = unlinked + 1
  /\ should_save_persistent' = FALSE
  /\ IF r.status = "ok"
     THEN /\ post_ret' = <<FALSE>>
          /\ pc' = "dispatched"
          /\ exited' = exited
     ELSE /\ pc' = "exited"
          /\ exited' = ExitOf(r)
          /\ post_ret' = post_ret
  /\ UNCHANGED <<game_args, game_args_pass, session, warp_spec, config>>

\* rmpersistent() after takes_no_arguments: the persistent data is deleted.
RmpersistentEffects(r) ==
  /\ parsed' = Returned(r, "strict", parsed)
  /\ IF r.status = "ok"
     THEN /\ unlinked' = unlinked + 1
          /\ should_save_persistent' = FALSE
          /\ post_ret' = <<FALSE>>
          /\ pc' = "dispatched"
          /\ exited' = exited
     ELSE /\ pc' = "exited"
          /\ exited' = ExitOf(r)
          /\ UNCHANGED <<unlinked, should_save_persistent, post_ret>>
  /\ UNCHANGED <<game_args, game_args_pass, session, warp_spec, config>>

\* rmpersistent(): takes_no_arguments, then the deletion.
Rmpersistent == RmpersistentEffects(takes_no_arguments(argv, session))

\* renpy.lint.lint and the handlers of the game: code outside this module.
\* Such a handler is called and returns true or false.
External ==
  /\ \E b \in BOOLEAN : post_ret' = <<b>>
  /\ pc' = "dispatched"
  /\ UNCHANGED <<parsed, game_args, game_args_pass, session, warp_spec, config, unlinked,
                 should_save_persistent, exited>>

\* A call that reaches compile or quit for "run" and run for the others.
CallHandlerSwapped(h) ==
  IF h = "run" THEN CompileOrQuit
  ELSE IF h \in {"compile", "quit", "rmpersistent"} THEN Run
  ELSE External

\* commands[command]()
CallHandler(h) ==
  IF h = "run" THEN Run
  ELSE IF h \in {"compile", "quit"} THEN CompileOrQuit
  ELSE IF h = "rmpersistent" THEN Rmpersistent
  ELSE External

\* The effects of post_init(), d being the dispatch it resolved: an
\* unknown command is a usage error, else the handler is called.
PostInitEffects(d) ==
  /\ environ' = d.environ
  /\ IF ~d.known
     THEN /\ pc' = "exited"
          /\ exited' = [code |-> 2, msg |-> "Command is unknown"]
          /\ UNCHANGED <<parsed, game_args, game_args_pass, session, warp_spec, config,
                         unlinked, should_save_persistent, post_ret, invoked>>
     ELSE /\ invoked' = Append(invoked, d.handler)
          /\ CallHandler(d.handler)

\* post_init(): resolve the command, fail on an unknown one, set the driver
\* defaults, call the handler and return what it returns.
PostInit ==
  /\ pc = "init"
  /\ PostInitEffects(post_init(game_args.val, commands, display, environ))
  /\ UNCHANGED <<argv, epic_arguments, commands, display, bootstrap_ret,
                 pre_inited, nregs>>

\* A reload of the running game: the session is kept and marked, the warp
\* code has used the target or not, and post_init is called again on the
\* same vector.
Reload ==
  /\ pc = "dispatched"
  /\ post_ret = <<TRUE>>
  /\ Len(invoked) < MaxRuns
  /\ pc' = "init"
  /\ post_ret' = <<>>
  /\ session' = [session EXCEPT !["_reload"] = TRUE]
  /\ warp_spec' \in {warp_spec, <<>>}
  /\ UNCHANGED <<argv, epic_arguments, commands, display, environ,
                 bootstrap_ret, game_args, game_args_pass, parsed, pre_inited,
                 nregs, invoked, exited, config, unlinked,
                 should_save_persistent>>

\* The start-up sequence with the built-in registrations only.
NextBuiltin ==
  \/ Bootstrap
  \/ SetGameArgs
  \/ PreInit
  \/ PostInit

\* The start-up sequence with the registrations of the game's init code.
Next ==
  \/ Bootstrap
  \/ SetGameArgs
  \/ PreInit
  \/ RegisterCommand
  \/ PostInit

\* The start-up sequence of a session with reloads.
NextReload ==
  \/ Bootstrap
  \/ SetGameArgs
  \/ PreInit
  \/ PostInit
  \/ Reload

Spec == Init /\ [][Next]_vars

SpecParse == InitParse /\ [][NextBuiltin]_vars

SpecSanitize == InitSanitize /\ [][NextBuiltin]_vars

SpecDefer == InitDefer /\ [][NextBuiltin]_vars

SpecStray == InitStray /\ [][NextBuiltin]_vars

SpecReload == InitReload /\ [][NextReload]_vars

(***************************************************************************)
(* Properties of the dispatch, checked under Spec.                         *)
(***************************************************************************)
\* A step of post_init: the only step that leaves the init phase.
PostInitStep == pc = "init" /\ pc' # "init"

\* The command post_init resolves from renpy.game.args, written out.
ResolvedCommand ==
  IF game_args.val.command = "run" /\ game_args.val.lint
  THEN "lint"
  ELSE game_args.val.command

\* C1: when the command post_init resolves is not a key of the registry,
\* post_init ends in the usage error "Command ... is unknown" with status 2,
\* calls no handler, returns nothing and leaves both driver variables as
\* they were, whatever the registry holds.
C1_UnknownCommandIsUsageError ==
  [][(PostInitStep /\ ResolvedCommand \notin DOMAIN commands)
       => /\ pc' = "exited"
          /\ exited' = [code |-> 2, msg |-> "Command is unknown"]
          /\ invoked' = <<>>
          /\ post_ret' = <<>>
          /\ environ' = environ]_vars

\* An unknown command met a registry that holds the built-in commands and
\* an environment with both variables unset.
C1_Witness ==
  /\ pc = "exited"
  /\ exited.msg = "Command is unknown"
  /\ pre_inited
  /\ game_args.val.command = "bogus"
  /\ invoked = <<>>
  /\ DOMAIN environ = {}

\* C2: post_init calls exactly one handler: the one registered under "lint"
\* when the provisional command is "run" and the lint flag is set, and the
\* one registered under the provisional command in every other case.
C2_CommandResolution ==
  [][(PostInitStep /\ ResolvedCommand \in DOMAIN commands)
       => /\ invoked = <<>>
          /\ invoked' =
               <<IF game_args.val.command = "run" /\ game_args.val.lint
                 THEN commands["lint"]
                 ELSE commands[game_args.val.command]>>
          /\ (game_args.val.command = "run" /\ game_args.val.lint
                => invoked' # <<commands["run"]>>)]_vars

\* "run" with the lint flag was dispatched to the lint handler.
C2_Witness ==
  /\ pc = "dispatched"
  /\ bootstrap_ret.val.command = "run"
  /\ bootstrap_ret.val.lint
  /\ invoked = <<"lint">>

\* C3: when post_init dispatches a command registered with uses_display
\* false, each driver variable ends up "dummy" if it was unset and keeps its
\* value if it was set; with uses_display true both are left as they were.
C3_DriverDefaults ==
  [][(PostInitStep /\ ResolvedCommand \in DOMAIN commands)
       => IF display[ResolvedCommand]
          THEN environ' = environ
          ELSE /\ DOMAIN environ' = EnvNames
               /\ \A k \in EnvNames :
                    environ'[k] = IF k \in DOMAIN environ THEN environ[k]
                                  ELSE "dummy"]_vars

\* A command that does not use the display was dispatched with the audio
\* driver set by the operator and the video driver unset.
C3_Witness ==
  /\ invoked # <<>>
  /\ ~display[ResolvedCommand]
  /\ DOMAIN environ = EnvNames
  /\ environ["SDL_AUDIODRIVER"] = "x11"
  /\ environ["SDL_VIDEODRIVER"] = "dummy"

(***************************************************************************)
(* Properties of the sanitizer, checked under SpecSanitize.                *)
(***************************************************************************)
\* A step of bootstrap: the only step that leaves the start.
BootstrapStep == pc = "start" /\ pc' # "start"

HasEpicToken(v) == \E k \in 2..Len(v) : IsEpicToken(v[k])

HasPsnToken(v) == \E k \in 2..Len(v) : IsPsnToken(v[k])

\* C4: when a token after the program name starts, in lower case, with
\* "-epicapp=", the sanitized vector is the program name alone and
\* epic_arguments holds the whole original tail, in order.
C4_EpicTailSaved ==
  [][(BootstrapStep /\ HasEpicToken(argv))
       => /\ argv' = <<argv[1]>>
          /\ epic_arguments' = Some(ArgTail(argv))]_vars

\* A mixed-case launcher token between two other tokens cleared the vector,
\* and all three tokens were saved.
C4_Witness ==
  /\ pc # "start"
  /\ argv = <<"renpy">>
  /\ epic_arguments = Some(<<"game", "-EpicApp=2", "--lint">>)

\* C5 as stated: with a "-psn" token the sanitized vector is the program
\* name alone and the tail is never stored in epic_arguments.
C5_PsnTailNeverSaved ==
  [][(BootstrapStep /\ HasPsnToken(argv))
       => /\ argv' = <<argv[1]>>
          /\ epic_arguments' = None]_vars

\* C5 amended: with a "-psn" token the sanitized vector is the program name
\* alone, and the tail is stored in epic_arguments only when the vector
\* also holds an "-epicapp=" token.
C5_PsnTailDiscarded ==
  [][(BootstrapStep /\ HasPsnToken(argv))
       => /\ argv' = <<argv[1]>>
          /\ epic_arguments' =
               IF HasEpicToken(argv) THEN Some(ArgTail(argv)) ELSE None]_vars

\* A vector holding both a quarantine token and a launcher token was
\* cleared, and its tail, quarantine token included, was saved.
C5_Witness ==
  /\ pc # "start"
  /\ argv = <<"renpy">>
  /\ epic_arguments = Some(<<"game", "-PSN_1", "-epicapp=1">>)

\* C6: without a launcher or quarantine token after the program name the
\* vector and epic_arguments are unchanged; the program name is not tested.
C6_NoMarkerNoChange ==
  [][(BootstrapStep /\ ~HasEpicToken(argv) /\ ~HasPsnToken(argv))
       => /\ argv' = argv
          /\ epic_arguments' = epic_arguments]_vars

\* A vector whose program name starts with "-psn" kept its three tokens.
C6_Witness ==
  /\ pc # "start"
  /\ argv[1] = "-psn_app"
  /\ Len(argv) = 4
  /\ epic_arguments = None

(***************************************************************************)
(* Properties of the parses, checked under SpecParse (C7 to C9) and        *)
(* SpecDefer (C10).  parsed holds what the last call of parse_known_args   *)
(* returned, in bootstrap (lenient) or inside the parse_args call of a     *)
(* handler (strict).                                                       *)
(***************************************************************************)
Range(s) == {s[k] : k \in 1..Len(s)}

\* C7: after every parse, lenient or strict, whose command is one of
\* "compile", "add_from", "merge_strings", the compile flag is true,
\* whatever the vector and the session markers are.
C7_CompileCommandsForceCompile ==
  (parsed.some /\ parsed.val.args.command \in {"compile", "add_from", "merge_strings"})
    => parsed.val.args.compile

\* The strict parse of the compile handler set the flag without --compile,
\* with the reload marker set and the compile marker unset.
C7_Witness ==
  /\ parsed.some
  /\ parsed.val.mode = "strict"
  /\ parsed.val.args.command = "compile"
  /\ parsed.val.args.compile
  /\ "--compile" \notin Range(argv)
  /\ session["_reload"]
  /\ ~session["compile"]

\* C8: with the reload marker set, the compile flag after any parse equals
\* (command in compile_commands or the compile marker is set), whether or
\* not --compile was passed.
C8_ReloadClearsCompile ==
  (parsed.some /\ session["_reload"])
    => (parsed.val.args.compile =
          (\/ parsed.val.args.command \in compile_commands
           \/ session["compile"]))

\* --compile was passed with the reload marker set and the flag is false.
C8_Witness ==
  /\ parsed.some
  /\ session["_reload"]
  /\ "--compile" \in Range(ArgTail(argv))
  /\ ~parsed.val.args.compile

\* C9: the lint flag of the arguments bootstrap returns is true when the
\* command is "lint", and else equals the parsed --lint value, which is
\* true exactly when --lint is in the vector.
C9_LintCommandForcesLint ==
  pc = "bootstrapped"
    => /\ parsed.val.args.lint = ("--lint" \in Range(ArgTail(argv)))
       /\ bootstrap_ret.val.lint =
            IF bootstrap_ret.val.command = "lint" THEN TRUE
            ELSE parsed.val.args.lint

\* The command "lint" without --lint: the parse left the flag false and
\* bootstrap returned it true.
C9_Witness ==
  /\ pc = "bootstrapped"
  /\ bootstrap_ret.val.command = "lint"
  /\ "--lint" \notin Range(argv)
  /\ ~parsed.val.args.lint
  /\ bootstrap_ret.val.lint

\* The positions of the option tokens of v the parser G does not declare.
UnrecognizedBy(G, v) ==
  {k \in 2..Len(v) : ParseOptional(G, v[k]).kind = "O" /\ ParseOptional(G, v[k]).opt = NoOption}

\* The built-in handlers that parse the vector strictly.
StrictHandlers == {"run", "compile", "quit", "rmpersistent"}

\* The parser a strict handler builds.
HandlerParser(h) == IF h = "run" THEN RunParser ELSE NoArgumentsParser

\* post_init calls a handler that parses strictly, on a vector with an
\* option token the parser of the handler does not declare.
StrictPassOnUndeclared ==
  /\ PostInitStep
  /\ ResolvedCommand \in DOMAIN commands
  /\ commands[ResolvedCommand] \in StrictHandlers
  /\ UnrecognizedBy(HandlerParser(commands[ResolvedCommand]), argv) # {}

\* The positions of the tokens of v the parser G reads as its help option,
\* and of the tokens that carry an explicit argument for an option of G.
HelpPositions(G, v) ==
  {k \in 2..Len(v) : ParseOptional(G, v[k]).opt \in HelpOptions}

ExplicitPositions(G, v) ==
  {k \in 2..Len(v) : ParseOptional(G, v[k]).arg.some}

HelpExit == [code |-> 0, msg |-> "help"]

\* The exit e of a strict pass with the parser G on a vector v that holds a
\* token G has no use for: a usage error, or the help exit when a token of
\* v is the help option; without a token that hands an option its argument
\* in one piece the exit is the help exit when v holds the help option and
\* the usage error "unrecognized arguments" when it does not.
StrictExitOnStray(G, v, e) ==
  /\ e.code = 2 \/ e = HelpExit
  /\ e.code = 0 => HelpPositions(G, v) # {}
  /\ ExplicitPositions(G, v) = {} =>
       e = IF HelpPositions(G, v) # {} THEN HelpExit
           ELSE [code |-> 2, msg |-> "unrecognized arguments"]

\* The vector holds a token the parser G knows: an option of G, or an
\* abbreviation of several of them.
RecognizedBy(G, v) ==
  {k \in 2..Len(v) : \/ ParseOptional(G, v[k]).kind = "ambiguous"
                     \/ ParseOptional(G, v[k]).opt # NoOption}

\* C10 as stated: on a vector with option tokens the global grammar does
\* not recognize, bootstrap completes and returns arguments; the strict
\* pass of the dispatched handler ends in a usage error when the vector
\* holds an option token the handler did not declare.
C10_DeferredThenUsageError ==
  [][/\ (BootstrapStep /\ UnrecognizedBy(BootstrapParser, argv') # {})
          => (pc' = "bootstrapped" /\ bootstrap_ret'.some)
     /\ StrictPassOnUndeclared
          => (pc' = "exited" /\ exited'.code = 2)]_vars

\* C10 amended: bootstrap never ends in the usage error for unrecognized
\* arguments; it ends in a usage error only on a vector with a token the
\* global grammar does recognize (an ambiguous abbreviation, an option that
\* misses its value or is handed one it cannot take), and when it completes
\* every undeclared option token is among the tokens it left over; the
\* strict pass of the handler on a vector with an undeclared option token
\* ends the process: in a usage error, which is "unrecognized arguments"
\* unless a token hands an option of the handler an argument in one piece,
\* or, when the vector holds the help option, in the help exit with status
\* 0.
C10_DeferredNotLost ==
  [][/\ BootstrapStep
          => /\ exited'.msg # "unrecognized arguments"
             /\ pc' = "exited" =>
                  /\ exited'.code = 2
                  /\ RecognizedBy(BootstrapParser, argv') # {}
             /\ pc' = "bootstrapped" =>
                  /\ bootstrap_ret'.some
                  /\ \A k \in UnrecognizedBy(BootstrapParser, argv') :
                       argv'[k] \in Range(parsed'.val.rest)
     /\ StrictPassOnUndeclared
          => /\ pc' = "exited"
             /\ StrictExitOnStray(HandlerParser(commands[ResolvedCommand]),
                                  argv, exited')]_vars

\* Bootstrap left --foo over, and run's strict parse ended in the usage
\* error for it.
C10_Witness ==
  /\ pc = "exited"
  /\ exited = [code |-> 2, msg |-> "unrecognized arguments"]
  /\ invoked = <<"run">>
  /\ bootstrap_ret.some
  /\ parsed.val.mode = "strict"
  /\ "--foo" \in Range(parsed.val.rest)

(***************************************************************************)
(* Properties of the registry, checked under Spec.                         *)
(***************************************************************************)
\* A step in which the game's init code calls register_command.
RegisterStep == pc = "init" /\ nregs' = nregs + 1

\* A step of pre_init.
PreInitStep == ~pre_inited /\ pre_inited'

\* The step is the call register_command(n, f, d): afterwards the lookup of
\* n yields f and d, the other entries are as before, and the same call
\* once more changes nothing.
LastCallWins(n, f, d) ==
  /\ DOMAIN commands' = DOMAIN commands \cup {n}
  /\ DOMAIN display' = DOMAIN display \cup {n}
  /\ commands'[n] = f
  /\ display'[n] = d
  /\ \A m \in DOMAIN commands \ {n} :
       commands'[m] = commands[m] /\ display'[m] = display[m]
  /\ register_command(Registry', n, f, d) = Registry'

BuiltinNames == {"run", "lint", "compile", "rmpersistent", "quit"}

\* C11: a call of register_command makes the lookup of its name yield its
\* handler and its flag, whatever the name held before, leaves the entries
\* of the other names unchanged, and changes nothing when repeated; the
\* calls of pre_init that omit uses_display set the flag to false, also for
\* a name registered before with the flag true.
C11_LastRegistrationWins ==
  [][/\ RegisterStep =>
          \E n \in UserNames, f \in UserHandlers, d \in BOOLEAN :
            LastCallWins(n, f, d)
     /\ PreInitStep =>
          /\ DOMAIN commands' = DOMAIN commands \cup BuiltinNames
          /\ DOMAIN display' = DOMAIN commands'
          /\ \A n \in BuiltinNames :
               commands'[n] = n /\ display'[n] = (n = "run")
          /\ \A m \in DOMAIN commands \ BuiltinNames :
               commands'[m] = commands[m] /\ display'[m] = display[m]
          /\ pre_init(Registry') = Registry']_vars

\* The game's registration replaced the built-in quit and its flag, and the
\* other built-in entries are as pre_init left them.
C11_Witness ==
  /\ pre_inited
  /\ nregs = 1
  /\ commands["quit"] = "user"
  /\ display["quit"]
  /\ commands["run"] = "run"
  /\ display["run"]
  /\ commands["compile"] = "compile"
  /\ DOMAIN commands = BuiltinNames

(***************************************************************************)
(* Properties of the handlers, checked under SpecDefer.                    *)
(***************************************************************************)
\* A step of post_init in which the handler returned.
DispatchedStep == PostInitStep /\ pc' = "dispatched"

\* C12: a post_init step that returns has called one handler, the one
\* registered for the effective command, and returns one value; it is true
\* when the handler is run, false when it is compile, quit or rmpersistent,
\* and with the built-in registrations that is the dispatch of the command
\* of the same name.
C12_HandlerCalledOnceReturnKept ==
  [][DispatchedStep =>
       /\ invoked' = <<commands[ResolvedCommand]>>
       /\ post_ret' \in {<<TRUE>>, <<FALSE>>}
       /\ invoked'[1] = "run" => post_ret' = <<TRUE>>
       /\ invoked'[1] \in {"compile", "quit", "rmpersistent"} =>
            post_ret' = <<FALSE>>
       /\ ResolvedCommand \in {"run", "compile", "quit", "rmpersistent"} =>
            /\ invoked'[1] = ResolvedCommand
            /\ post_ret' = <<ResolvedCommand = "run">>]_vars

\* The command quit was dispatched and post_init returned false.
C12_Witness ==
  /\ pc = "dispatched"
  /\ game_args.val.command = "quit"
  /\ invoked = <<"quit">>
  /\ post_ret = <<FALSE>>

(***************************************************************************)
(* Properties of the defaults, checked under SpecSanitize.                 *)
(***************************************************************************)
\* The global options that are flags: they take no value and only set a
\* field of the namespace.
GlobalFlags == (GlobalOptions \ StoreOptions) \ {"--version"}

\* The vector holds no positional argument for bootstrap: the tokens after
\* the program name are global flags, or sanitization clears them.
NoPositionals(v) ==
  \/ HasEpicToken(v)
  \/ HasPsnToken(v)
  \/ \A k \in 2..Len(v) : v[k] \in GlobalFlags

\* C13: on a vector without positional arguments, and on a vector that
\* sanitization clears, bootstrap returns with command "run" and basedir "".
C13_DefaultCommandAndBasedir ==
  [][(BootstrapStep /\ NoPositionals(argv))
       => /\ pc' = "bootstrapped"
          /\ parsed'.val.args.command = "run"
          /\ parsed'.val.args.basedir = ""
          /\ bootstrap_ret'.val.command = "run"
          /\ bootstrap_ret'.val.basedir = ""]_vars

\* A vector with a base directory and a launcher token was cleared, and
\* bootstrap returned the defaults.
C13_Witness ==
  /\ pc = "bootstrapped"
  /\ epic_arguments = Some(<<"game", "-epicapp=1">>)
  /\ bootstrap_ret.val.command = "run"
  /\ bootstrap_ret.val.basedir = ""

(***************************************************************************)
(* Properties of the handlers that take no arguments, checked under        *)
(* SpecStray.                                                              *)
(***************************************************************************)
\* The vector holds a token the parser of takes_no_arguments has no use
\* for: an option it does not declare, or a third positional argument.
HasStrayToken(v) ==
  \/ UnrecognizedBy(NoArgumentsParser, v) # {}
  \/ Cardinality({k \in 2..Len(v) :
                    ParseOptional(NoArgumentsParser, v[k]).kind = "A"}) > 2

\* post_init calls rmpersistent on a vector with a stray token.
RmpersistentOnStray ==
  /\ PostInitStep
  /\ ResolvedCommand \in DOMAIN commands
  /\ commands[ResolvedCommand] = "rmpersistent"
  /\ HasStrayToken(argv)

\* C14 as stated: rmpersistent dispatched on a vector with a stray token
\* ends in the usage-error exit and deletes nothing.
C14_StrayTokenIsUsageError ==
  [][RmpersistentOnStray
       => /\ pc' = "exited"
          /\ exited'.code = 2
          /\ unlinked' = unlinked
          /\ should_save_persistent' = should_save_persistent]_vars

\* C14 amended: rmpersistent dispatched on a vector with a stray token
\* deletes nothing and ends the process: in a usage error, which is
\* "unrecognized arguments" unless a token hands an option an argument in
\* one piece, or, when the vector also holds the help option, in the help
\* exit with status 0; the deletion happens only in a step whose strict
\* parse left no token over.
C14_StrayTokenNothingDeleted ==
  [][/\ RmpersistentOnStray
          => /\ pc' = "exited"
             /\ StrictExitOnStray(NoArgumentsParser, argv, exited')
             /\ unlinked' = unlinked
             /\ should_save_persistent' = should_save_persistent
     /\ (unlinked' # unlinked \/ should_save_persistent' # should_save_persistent)
          => /\ pc' = "dispatched"
             /\ invoked' = <<"rmpersistent">>
             /\ parsed'.val.mode = "strict"
             /\ parsed'.val.rest = <<>>
             /\ unlinked' = unlinked + 1
             /\ ~should_save_persistent']_vars

\* rmpersistent was called with a stray token: the process ended in the
\* usage error with the persistent data in place.
C14_Witness ==
  /\ pc = "exited"
  /\ exited = [code |-> 2, msg |-> "unrecognized arguments"]
  /\ invoked = <<"rmpersistent">>
  /\ unlinked = 0
  /\ should_save_persistent

(***************************************************************************)
(* Dispatch before registration, checked under Spec.                       *)
(***************************************************************************)
\* The exit of parser.error for a command the registry does not hold.
UnknownCommandExit == [code |-> 2, msg |-> "Command is unknown"]

\* C15: post_init called while the registry is empty calls no handler and
\* fails with an assertion failure, which is not the usage-error exit an
\* unknown command of the user ends in.
C15_EmptyRegistryIsAssertion ==
  [][(PostInitStep /\ DOMAIN commands = {})
       => /\ pc' = "exited"
          /\ invoked' = <<>>
          /\ exited'.msg = "AssertionError"
          /\ exited' # UnknownCommandExit]_vars

\* post_init ran on the empty registry with the command "run", which
\* pre_init would have registered, and ended in the usage-error exit.
C15_Witness ==
  /\ pc = "exited"
  /\ DOMAIN commands = {}
  /\ ~pre_inited
  /\ game_args.val.command = "run"
  /\ invoked = <<>>
  /\ exited = UnknownCommandExit

(***************************************************************************)
(* The record renpy.game.args after a dispatch, checked under SpecParse.   *)
(***************************************************************************)
\* The compile flag the three rules give a record parsed from the vector.
ExpectedCompile(command) ==
  \/ "--compile" \in Range(ArgTail(argv)) /\ ~session["_reload"]
  \/ command \in compile_commands
  \/ session["compile"]

\* The record renpy.game.args refers to was built by the strict parse of
\* this step, and the compile rules were applied to it.
ReplacedByStrictPass ==
  /\ game_args_pass' = "strict"
  /\ parsed'.val.mode = "strict"
  /\ game_args' = Some(parsed'.val.args)
  /\ game_args'.val.compile = ExpectedCompile(game_args'.val.command)

\* C16 as stated: after a returning dispatch of any handler of this module
\* renpy.game.args refers to the record the strict parse built.
C16_ArgsReplacedByAnyCommand ==
  [][(DispatchedStep /\ invoked'[1] \in StrictHandlers)
       => ReplacedByStrictPass]_vars

\* C16 amended: after a returning dispatch of run, renpy.game.args refers
\* to the record of the strict parse, with the compile rules applied again
\* and the fields only run() declares; after a returning dispatch of
\* compile, quit or rmpersistent it still refers to the record of
\* bootstrap, which has the same values as the strict parse built.
C16_ArgsReplacedByRun ==
  [][DispatchedStep =>
       /\ invoked'[1] = "run" =>
            /\ ReplacedByStrictPass
            /\ game_args'.val.profile_display =
                 ("--profile-display" \in Range(ArgTail(argv)))
       /\ invoked'[1] \in StrictHandlers \ {"run"} =>
            /\ game_args_pass' = "bootstrap"
            /\ game_args' = game_args
            /\ parsed'.val.mode = "strict"
            /\ game_args'.val = parsed'.val.args]_vars

\* run replaced the record of bootstrap by one with a field bootstrap's
\* parser does not set, during a reload with --compile in the vector.
C16_Witness ==
  /\ pc = "dispatched"
  /\ invoked = <<"run">>
  /\ game_args_pass = "strict"
  /\ game_args.val.profile_display
  /\ ~bootstrap_ret.val.profile_display
  /\ session["_reload"]
  /\ "--compile" \in Range(argv)
  /\ ~game_args.val.compile

(***************************************************************************)
(* The two dictionaries of the registry, checked under Spec.               *)
(***************************************************************************)
\* C17: commands and display always have the same keys, so when post_init
\* is about to run and the effective command is in commands, its display
\* flag is defined.
C17_SameKeys ==
  /\ DOMAIN commands = DOMAIN display
  /\ (pc = "init" /\ ResolvedCommand \in DOMAIN commands)
       => /\ ResolvedCommand \in DOMAIN display
          /\ display[ResolvedCommand] \in BOOLEAN

\* After pre_init and a registration by the game, post_init looked up the
\* flag of the game's command and called its handler.
C17_Witness ==
  /\ pc = "dispatched"
  /\ pre_inited
  /\ nregs = 1
  /\ DOMAIN commands = BuiltinNames \cup {"add_from"}
  /\ DOMAIN display = BuiltinNames \cup {"add_from"}
  /\ invoked = <<"user">>

(***************************************************************************)
(* The warp target over the runs of one session, checked under SpecReload. *)
(***************************************************************************)
\* The positions of the tokens of v that give a warp target: --warp with a
\* token after it, and --warp=TARGET.
WarpPositions(v) ==
  {k \in 2..Len(v) : \/ v[k] = "--warp" /\ k < Len(v)
                     \/ StartsWith(Chars(v[k]), Chars("--warp="))}

\* The target the token at position k gives: the token after --warp, or
\* the part after "=", where "--" stands for no target at all.
WarpTargetAt(v, k) ==
  IF v[k] = "--warp" THEN v[k + 1]
  ELSE IF AfterEq(Chars(v[k])) = <<"-", "-">> THEN "<empty list>"
  ELSE StringOf(AfterEq(Chars(v[k])))

\* The target the vector gives: the one of the last such token, or none.
WarpTarget(v) ==
  IF WarpPositions(v) = {} THEN <<>>
  ELSE <<WarpTargetAt(v, SetMax(WarpPositions(v)))>>

\* C18: a call of post_init assigns the warp target only when run()
\* returns, --warp is given with a target that is neither the empty string
\* nor dropped as "--", and _warped is not set, and then sets _warped in
\* the same step; in every other call, in particular in every call after
\* that one, warp_spec and _warped are left as they are; _warped is never
\* reset.
C18_WarpAtMostOnce ==
  [][/\ PostInitStep =>
          IF /\ pc' = "dispatched"
             /\ invoked'[Len(invoked')] = "run"
             /\ WarpTarget(argv) \notin {<<>>, <<"">>, <<"<empty list>">>}
             /\ ~session["_warped"]
          THEN /\ warp_spec' = WarpTarget(argv)
               /\ session'["_warped"]
          ELSE /\ warp_spec' = warp_spec
               /\ session'["_warped"] = session["_warped"]
     /\ session["_warped"] => session'["_warped"]]_vars

\* The second run of a session got the same --warp, after the target of the
\* first run had been used: run() left warp_spec empty.
C18_Witness ==
  /\ pc = "dispatched"
  /\ invoked = <<"run", "run">>
  /\ game_args.val.warp = <<"label">>
  /\ session["_warped"]
  /\ session["_reload"]
  /\ warp_spec = <<>>

(***************************************************************************)
(* The display flag of the effective command, checked under Spec.          *)
(***************************************************************************)
\* post_init runs on the built-in registry with the command "run"
\* redirected to "lint" by the lint flag.
RedirectedToLint ==
  /\ PostInitStep
  /\ game_args.val.command = "run"
  /\ game_args.val.lint
  /\ "lint" \in DOMAIN commands
  /\ display["run"]
  /\ ~display["lint"]

\* C19: when "run", registered as using the display, is redirected to
\* "lint", registered as not using it, post_init sets each unset driver
\* variable to "dummy" and keeps each set one: the flag consulted is that
\* of the effective command.
C19_DisplayOfEffectiveCommand ==
  [][RedirectedToLint
       => /\ invoked' = <<commands["lint"]>>
          /\ DOMAIN environ' = EnvNames
          /\ \A k \in EnvNames \ DOMAIN environ : environ'[k] = "dummy"
          /\ \A k \in DOMAIN environ : environ'[k] = environ[k]]_vars

\* --lint alone, with both variables unset: the lint handler was called and
\* both variables are "dummy", while "run" is registered with the display.
C19_Witness ==
  /\ pc = "dispatched"
  /\ argv = <<"renpy", "--lint">>
  /\ bootstrap_ret.val.command = "run"
  /\ invoked = <<"lint">>
  /\ display["run"]
  /\ environ = [k \in EnvNames |-> "dummy"]
  /\ nregs = 0

====
